---------------------------- MODULE Spec2Model ----------------------------
(***************************************************************************)
(* Model of ha-samsungtv-advanced: the binary channel-list codec           *)
(* (custom_components/samsungtv_advanced/channel.py) and the media player  *)
(* entity (custom_components/samsungtv_advanced/media_player.py).          *)
(*                                                                         *)
(* Spec is one call of Channel._parse_channel_list on a buffer.            *)
(* SpecChannel is the life of one Channel: its construction from a record  *)
(* or from an XML element, calls of as_xml and as_params, and the          *)
(* construction of a second Channel from the document as_xml wrote.        *)
(* SpecContext is the life of a few ContextException objects and of the    *)
(* lists they are given.  SpecDevice is the life of one SamsungTVDevice.   *)
(*                                                                         *)
(* A byte is a number in 0..255, a byte buffer is a sequence of bytes, and *)
(* a text string is a sequence of Unicode code points.  A list of strings  *)
(* (an exception's context) is a sequence of such sequences.  A message    *)
(* built with the % operator is kept as its format string and the tuple of *)
(* its arguments.  A Python value whose type matters is a record of its    *)
(* type and its value: PyInt(7), PyStr(<<55>>), PyNone.                    *)
(***************************************************************************)
EXTENDS Integers, Sequences, FiniteSets, TLC

VARIABLES
    channel_list,   \* the buffer handed to Channel._parse_channel_list
    pc,             \* position of the call inside _parse_channel_list
    pos,            \* the loop variable pos
    channels,       \* the dict channels: dispno -> Channel
    exc,            \* the exception that left the call, or NoException
    decoded,        \* offsets at which Channel(chunk) has been called, in order
    source,         \* the argument of Channel(from_dat): bytes or a minidom node
    self,           \* the fields of the Channel under use
    cpc,            \* its life cycle: "new", "built", or "raised" by __init__
    cexc,           \* the exception that left Channel(from_dat), or NoException
    calls,          \* the as_xml / as_params calls made on self, with results
    copy,           \* Channel(parseString(self.as_xml).documentElement)
    heap,           \* the list objects: heap[r] is the content of list r
    instances,      \* the ContextException objects created so far
    config,         \* the config entry of the SamsungTVDevice
    now,            \* dt_util.utcnow(), in ticks
    _end_of_power_off,
    _auth_failed,
    reauth,         \* a reauth flow has been started
    is_stopping,    \* hass.is_stopping
    _attr_state,
    _playing,
    _app_list,
    _app_list_event,
    _attr_source_list,
    _dmr_device,    \* None, or the device built on the notify server of this number
    _upnp_server,   \* None, or the number of a notify server
    servers,        \* the notify servers created so far: created, started, stopped
    upc,            \* position of the async_update call in progress
    app_pc,         \* position of its _async_startup_app_list task
    dmr_pc,         \* position of its _async_startup_dmr or _async_resubscribe_dmr task
    dmr_server,     \* the server whose start or stop that task awaits
    src_pc,         \* position of its _async_startup_source_list task
    rpc,            \* position of async_will_remove_from_hass
    upnp_server,    \* the local upnp_server of _async_shutdown_dmr
    last_call,      \* the last command handed to the bridge
    logged,         \* the "TV is powering off" messages logged so far
    app_list_requests,  \* number of bridge.async_request_app_list calls
    updates         \* number of async_update calls

list_vars == <<channel_list, pc, pos, channels, exc, decoded>>

channel_vars == <<source, self, cpc, cexc, calls, copy>>

context_vars == <<heap, instances>>

device_vars ==
    <<config, now, _end_of_power_off, _auth_failed, reauth, is_stopping,
      _attr_state, _playing, _app_list, _app_list_event, _attr_source_list,
      _dmr_device, _upnp_server, servers, upc, app_pc, dmr_pc, dmr_server,
      src_pc, rpc, upnp_server, last_call, logged, app_list_requests,
      updates>>

vars == <<list_vars, channel_vars, context_vars, device_vars>>

None == 0       \* no object

NoConfig == [rendering_control |-> FALSE, main_tv_agent |-> FALSE, mac |-> FALSE]

NoTime == [type |-> "None"]

NoCall == [call |-> "none", keys |-> <<>>]

DeviceIdle ==
    \* no SamsungTVDevice is under observation
    /\ config = NoConfig
    /\ now = 0
    /\ _end_of_power_off = NoTime
    /\ _auth_failed = FALSE
    /\ reauth = FALSE
    /\ is_stopping = FALSE
    /\ _attr_state = "None"
    /\ _playing = TRUE
    /\ _app_list = {}
    /\ _app_list_event = FALSE
    /\ _attr_source_list = "None"
    /\ _dmr_device = None
    /\ _upnp_server = None
    /\ servers = <<>>
    /\ upc = "none"
    /\ app_pc = "idle"
    /\ dmr_pc = "idle"
    /\ dmr_server = None
    /\ src_pc = "idle"
    /\ rpc = "idle"
    /\ upnp_server = None
    /\ last_call = NoCall
    /\ logged = {}
    /\ app_list_requests = 0
    /\ updates = 0

ContextIdle ==
    \* no ContextException object is under observation
    heap = <<>> /\ instances = <<>>

----------------------------------------------------------------------------
(* Sizes of the wire format.                                               *)

HeaderSize == 4
RecordSize == 124
MinListSize == 128
Reserved == 65535

(* Offsets of the numeric fields of a 124-byte entry.                      *)
MajorChOffset == 2
MinorChOffset == 4
ProgNumOffset == 8
PtcOffsetAsProgNum == ProgNumOffset
PtcOffset == 6

(* Bounds of the checked input space.                                      *)
MaxRecords == 2
MaxDeviations == 2
MaxCalls == 2
MaxInstances == 3
MaxContext == 2

----------------------------------------------------------------------------
(* Byte and string helpers.                                                *)

Slice(buf, lo, hi) ==
    \* Python buf[lo:hi] for 0 <= lo: clipped to the buffer, never an error
    LET h == IF hi > Len(buf) THEN Len(buf) ELSE hi
    IN  IF lo >= h THEN <<>> ELSE SubSeq(buf, lo + 1, h)

GetIntBigEndian(buf, offset) ==
    256 * buf[offset + 1] + buf[offset + 2]

_getint(buf, offset) ==
    \* struct.unpack('<H', buf[offset:offset + 2])[0]: low byte first
    buf[offset + 1] + 256 * buf[offset + 2]

IsCont(b) == b >= 128 /\ b <= 191

Utf8Width(b, i) ==
    \* number of bytes of the well-formed UTF-8 sequence starting at b[i],
    \* 0 when there is none (the 'strict' error handler then raises)
    LET b1 == b[i]
        has(k) == i + k <= Len(b)
        c(k) == b[i + k]
    IN  IF b1 <= 127 THEN 1
        ELSE IF b1 >= 194 /\ b1 <= 223
            THEN IF has(1) /\ IsCont(c(1)) THEN 2 ELSE 0
        ELSE IF b1 >= 224 /\ b1 <= 239
            THEN IF has(2) /\ IsCont(c(1)) /\ IsCont(c(2))
                    /\ (b1 = 224 => c(1) >= 160)
                    /\ (b1 = 237 => c(1) <= 159)
                 THEN 3 ELSE 0
        ELSE IF b1 >= 240 /\ b1 <= 244
            THEN IF has(3) /\ IsCont(c(1)) /\ IsCont(c(2)) /\ IsCont(c(3))
                    /\ (b1 = 240 => c(1) >= 144)
                    /\ (b1 = 244 => c(1) <= 143)
                 THEN 4 ELSE 0
        ELSE 0

Utf8CodePoint(b, i, w) ==
    IF w = 1 THEN b[i]
    ELSE IF w = 2 THEN (b[i] - 192) * 64 + (b[i + 1] - 128)
    ELSE IF w = 3 THEN (b[i] - 224) * 4096 + (b[i + 1] - 128) * 64
                       + (b[i + 2] - 128)
    ELSE (b[i] - 240) * 262144 + (b[i + 1] - 128) * 4096
         + (b[i + 2] - 128) * 64 + (b[i + 3] - 128)

IsLead(b, i) == ~IsCont(b[i])

Covered(b, i) ==
    \* the continuation byte b[i] belongs to the sequence of an earlier lead
    \E j \in 1..(i - 1) :
        /\ i - j <= 3
        /\ IsLead(b, j)
        /\ j + Utf8Width(b, j) > i

WellFormed(b) ==
    \* every byte starts a well-formed sequence or continues one
    \A i \in 1..Len(b) :
        IF IsLead(b, i) THEN Utf8Width(b, i) > 0 ELSE Covered(b, i)

RECURSIVE Utf8Text(_, _, _)
Utf8Text(b, lo, hi) ==
    \* the code points of the sequences that start in b[lo..hi], in order
    IF lo > hi THEN <<>>
    ELSE IF lo = hi
        THEN IF IsLead(b, lo) THEN <<Utf8CodePoint(b, lo, Utf8Width(b, lo))>>
             ELSE <<>>
    ELSE LET mid == (lo + hi) \div 2
         IN  Utf8Text(b, lo, mid) \o Utf8Text(b, mid + 1, hi)

Utf8Decode(b) ==
    \* bytes.decode('utf-8'): the text, or a UnicodeDecodeError (ok = FALSE)
    IF WellFormed(b) THEN [ok |-> TRUE, text |-> Utf8Text(b, 1, Len(b))]
    ELSE [ok |-> FALSE, text |-> <<>>]

RStripOneNul(s) ==
    IF Len(s) > 0 /\ s[Len(s)] = 0 THEN SubSeq(s, 1, Len(s) - 1) ELSE s

RECURSIVE RStripNul(_)
RStripNul(s) ==
    \* str.rstrip('\x00')
    IF Len(s) > 0 /\ s[Len(s)] = 0 THEN RStripNul(SubSeq(s, 1, Len(s) - 1))
    ELSE s

RECURSIVE DecStr(_)
DecStr(n) ==
    \* '%d' % n for n >= 0
    IF n < 10 THEN <<48 + n>> ELSE DecStr(n \div 10) \o <<48 + (n % 10)>>

HexDigit(d) == IF d < 10 THEN 48 + d ELSE 87 + d

ReprByte(c, quote) ==
    \* one byte inside repr(bytes)
    IF c = quote \/ c = 92 THEN <<92, c>>
    ELSE IF c = 9 THEN <<92, 116>>
    ELSE IF c = 10 THEN <<92, 110>>
    ELSE IF c = 13 THEN <<92, 114>>
    ELSE IF c < 32 \/ c >= 127 THEN <<92, 120, HexDigit(c \div 16), HexDigit(c % 16)>>
    ELSE <<c>>

RECURSIVE ReprRange(_, _, _, _)
ReprRange(b, lo, hi, quote) ==
    \* the escaped bytes b[lo..hi], in order
    IF lo > hi THEN <<>>
    ELSE IF lo = hi THEN ReprByte(b[lo], quote)
    ELSE LET mid == (lo + hi) \div 2
         IN  ReprRange(b, lo, mid, quote) \o ReprRange(b, mid + 1, hi, quote)

ReprBytes(b) ==
    \* repr(b) of a bytes object: b'...' (b"..." when it holds ' and no ")
    LET quote == IF (\E i \in 1..Len(b) : b[i] = 39)
                    /\ ~(\E i \in 1..Len(b) : b[i] = 34)
                 THEN 34 ELSE 39
    IN  <<98, quote>> \o ReprRange(b, 1, Len(b), quote) \o <<quote>>

StrChannelList == <<67, 104, 97, 110, 110, 101, 108, 32, 108, 105, 115, 116, 58, 32>>
StrChunkAt == <<99, 104, 117, 110, 107, 32, 115, 116, 97, 114, 116, 105, 110, 103, 32, 97, 116, 32>>
StrColon == <<58, 32>>
CDTV == <<67, 68, 84, 86>>
CATV == <<67, 65, 84, 86>>
DTV == <<68, 84, 86>>

FmtChannelList(buf) ==
    \* 'Channel list: %s' % repr(channel_list)
    StrChannelList \o ReprBytes(buf)

FmtChunk(p, chunk) ==
    \* 'chunk starting at %d: %s' % (pos, repr(chunk))
    StrChunkAt \o DecStr(p) \o StrColon \o ReprBytes(chunk)

----------------------------------------------------------------------------
(* ContextException / ParseException.                                      *)

Msg(fmt, args) == [fmt |-> fmt, args |-> args]

NoException == [cls |-> "None", msg |-> Msg("", <<>>), context |-> <<>>]

IterStr(s) ==
    \* iterating a str yields its characters, each a one-character string
    [i \in 1..Len(s) |-> <<s[i]>>]

ParseException(msg) ==
    \* ContextException.__init__ with the default context=[]:
    \* self.context = list([])
    [cls |-> "ParseException", msg |-> msg, context |-> <<>>]

ParseExceptionWith(msg, context) ==
    \* ContextException.__init__ called with a str as context:
    \* self.context = list(context) iterates the str
    [cls |-> "ParseException", msg |-> msg, context |-> IterStr(context)]

add_context(e, c) ==
    \* self.context.append(context)
    [e EXCEPT !.context = Append(@, c)]

BuiltinError(cls, text) ==
    \* an exception of a built-in class: it has no context attribute
    [cls |-> cls, msg |-> Msg(text, <<>>), context |-> <<>>]

MsgSize(n) ==
    Msg("channel list is smaller than it has to be for at least one channel (%d bytes (actual) vs. 128 bytes", <<n>>)
MsgFormat(n) ==
    Msg("channel list's size (%d) minus 128 (header) is not a multiple of 124 bytes", <<n>>)
MsgCount(n, actual, expected) ==
    Msg("Actual channel list length ((%d-4)/124=%d) does not equal expected channel list length (%d) as defined in header",
        <<n, actual, expected>>)
MsgUnknownType(t) == Msg("Unknown channel type %d", <<t>>)
MsgReserved(r) == Msg("reserved field mismatch (%04x)", <<r>>)

----------------------------------------------------------------------------
(* Channel: construction from a 124-byte chunk.                            *)

PyInt(n) == [type |-> "int", val |-> n]
PyStr(s) == [type |-> "str", val |-> s]
PyNone == [type |-> "NoneType", val |-> <<>>]

NoChannel ==
    \* no Channel object: the constructor raised
    [ch_type |-> PyNone, major_ch |-> PyNone, minor_ch |-> PyNone,
     ptc |-> PyNone, prog_num |-> PyNone, dispno |-> PyNone, title |-> PyNone]

Ok(ch) == [ok |-> TRUE, ch |-> ch, exc |-> NoException]
Raise(e) == [ok |-> FALSE, ch |-> NoChannel, exc |-> e]

KnownType(t) == t \in {2, 3, 4}

TypeNameSwapped(t) ==
    IF t = 4 THEN CATV ELSE IF t = 3 THEN CDTV ELSE DTV

TypeName(t) ==
    IF t = 4 THEN CDTV ELSE IF t = 3 THEN CATV ELSE DTV

ReservedOkLowByte(r) == r % 256 = 255

ReservedOk(r) == r = Reserved

TitleSlice(buf, title_len) == Slice(buf, 24, 24 + title_len)

_parse_dat(buf) ==
    LET t == _getint(buf, 0)
        r == _getint(buf, 10)
        d == Utf8Decode(Slice(buf, 12, 16))
        title_len == _getint(buf, 22)
        tt == Utf8Decode(TitleSlice(buf, title_len))
    IN  IF ~KnownType(t) THEN Raise(ParseException(MsgUnknownType(t)))
        ELSE IF ~ReservedOk(r) THEN Raise(ParseException(MsgReserved(r)))
        ELSE IF ~d.ok
            THEN Raise(BuiltinError("UnicodeDecodeError", "'utf-8' codec can't decode"))
        ELSE IF ~tt.ok
            THEN Raise(BuiltinError("UnicodeDecodeError", "'utf-8' codec can't decode"))
        ELSE Ok([ch_type |-> PyStr(TypeName(t)),
                 major_ch |-> PyInt(_getint(buf, MajorChOffset)),
                 minor_ch |-> PyInt(_getint(buf, MinorChOffset)),
                 ptc |-> PyInt(_getint(buf, PtcOffset)),
                 prog_num |-> PyInt(_getint(buf, ProgNumOffset)),
                 dispno |-> PyStr(RStripNul(d.text)),
                 title |-> PyStr(tt.text)])

Channel(from_dat) ==
    \* Channel.__init__ on a bytes object (not a minidom.Node)
    _parse_dat(from_dat)

----------------------------------------------------------------------------
(* Channel: construction from a parsed XML element (xml.dom.minidom).      *)
(* A node is an element (tag, childNodes), a text node or a comment (data),*)
(* or the document (childNodes).                                           *)

TagChannel == <<67, 104, 97, 110, 110, 101, 108>>    \* Channel
TagChType == <<67, 104, 84, 121, 112, 101>>    \* ChType
TagMajorCh == <<77, 97, 106, 111, 114, 67, 104>>    \* MajorCh
TagMinorCh == <<77, 105, 110, 111, 114, 67, 104>>    \* MinorCh
TagPTC == <<80, 84, 67>>    \* PTC
TagProgNum == <<80, 114, 111, 103, 78, 117, 109>>    \* ProgNum
StrAmp == <<38, 97, 109, 112, 59>>    \* "&amp;"
StrLt == <<38, 108, 116, 59>>    \* "&lt;"
StrGt == <<38, 103, 116, 59>>    \* "&gt;"

Element(tag, children) == [kind |-> "element", tag |-> tag, childNodes |-> children, data |-> <<>>]
Text(data) == [kind |-> "text", tag |-> <<>>, childNodes |-> <<>>, data |-> data]
Comment(data) == [kind |-> "comment", tag |-> <<>>, childNodes |-> <<>>, data |-> data]
Document(root) == [kind |-> "document", tag |-> <<>>, childNodes |-> <<root>>, data |-> <<>>]

nodeValue(node) ==
    \* Node.nodeValue: the data of a text node or a comment, None otherwise
    IF node.kind \in {"text", "comment"} THEN PyStr(node.data) ELSE PyNone

RECURSIVE ElementsFrom(_, _, _)
ElementsFrom(nodes, i, tag) ==
    \* the elements named tag among nodes[i..] and below them, in document
    \* order
    IF i > Len(nodes) THEN <<>>
    ELSE LET n == nodes[i]
             here == IF n.kind = "element" /\ n.tag = tag THEN <<n>> ELSE <<>>
         IN  here \o ElementsFrom(n.childNodes, 1, tag)
                  \o ElementsFrom(nodes, i + 1, tag)

getElementsByTagName(node, tag) ==
    \* every descendant element with this tag, in document order
    ElementsFrom(node.childNodes, 1, tag)

FirstValue(root, tag) ==
    \* root.getElementsByTagName(tag)[0].childNodes[0].nodeValue; either
    \* subscript raises IndexError on an empty list
    LET found == getElementsByTagName(root, tag)
    IN  IF found = <<>> THEN [ok |-> FALSE, val |-> PyNone]
        ELSE IF found[1].childNodes = <<>> THEN [ok |-> FALSE, val |-> PyNone]
        ELSE [ok |-> TRUE, val |-> nodeValue(found[1].childNodes[1])]

MsgWrongXml == Msg("Wrong XML document", <<>>)

_parse_xml(root) ==
    LET ch_type == FirstValue(root, TagChType)
        major_ch == FirstValue(root, TagMajorCh)
        minor_ch == FirstValue(root, TagMinorCh)
        ptc == FirstValue(root, TagPTC)
        prog_num == FirstValue(root, TagProgNum)
    IN  IF ch_type.ok /\ major_ch.ok /\ minor_ch.ok /\ ptc.ok /\ prog_num.ok
        THEN Ok([ch_type |-> ch_type.val,
                 major_ch |-> major_ch.val,
                 minor_ch |-> minor_ch.val,
                 ptc |-> ptc.val,
                 prog_num |-> prog_num.val,
                 dispno |-> major_ch.val,
                 title |-> PyStr(<<>>)])
        ELSE \* except Exception: raise ParseException("Wrong XML document")
             Raise(ParseException(MsgWrongXml))

ChannelFromNode(from_dat) ==
    \* Channel.__init__ on a minidom.Node
    _parse_xml(from_dat)

----------------------------------------------------------------------------
(* Channel: encoding.                                                      *)

XmlPart1 ==
    \* <?xml version="1.0" encoding="UTF-8" ?><Channel><ChType>
    <<60, 63, 120, 109, 108, 32, 118, 101, 114, 115, 105, 111, 110, 61, 34, 49, 46, 48, 34, 32, 101, 110, 99, 111, 100, 105, 110, 103, 61, 34, 85, 84, 70, 45, 56, 34, 32, 63, 62, 60, 67, 104, 97, 110, 110, 101, 108, 62, 60, 67, 104, 84, 121, 112, 101, 62>>
XmlPart2 ==
    \* </ChType><MajorCh>
    <<60, 47, 67, 104, 84, 121, 112, 101, 62, 60, 77, 97, 106, 111, 114, 67, 104, 62>>
XmlPart3 ==
    \* </MajorCh><MinorCh>
    <<60, 47, 77, 97, 106, 111, 114, 67, 104, 62, 60, 77, 105, 110, 111, 114, 67, 104, 62>>
XmlPart4 ==
    \* </MinorCh><PTC>
    <<60, 47, 77, 105, 110, 111, 114, 67, 104, 62, 60, 80, 84, 67, 62>>
XmlPart5 ==
    \* </PTC><ProgNum>
    <<60, 47, 80, 84, 67, 62, 60, 80, 114, 111, 103, 78, 117, 109, 62>>
XmlPart6 ==
    \* </ProgNum></Channel>
    <<60, 47, 80, 114, 111, 103, 78, 117, 109, 62, 60, 47, 67, 104, 97, 110, 110, 101, 108, 62>>

Returns(v) == [ok |-> TRUE, val |-> v, exc |-> NoException]
Raises(e) == [ok |-> FALSE, val |-> <<>>, exc |-> e]

EscapeChar(c) ==
    IF c = 38 THEN StrAmp ELSE IF c = 60 THEN StrLt ELSE IF c = 62 THEN StrGt
    ELSE <<c>>

RECURSIVE EscapeRange(_, _, _)
EscapeRange(s, lo, hi) ==
    IF lo > hi THEN <<>>
    ELSE IF lo = hi THEN EscapeChar(s[lo])
    ELSE LET mid == (lo + hi) \div 2
         IN  EscapeRange(s, lo, mid) \o EscapeRange(s, mid + 1, hi)

escape(data) ==
    \* xml.sax.saxutils.escape: "&" to "&amp;", then "<" to "&lt;" and ">" to
    \* "&gt;"; data.replace raises AttributeError when data is not a str
    IF data.type = "str" THEN Returns(EscapeRange(data.val, 1, Len(data.val)))
    ELSE Raises(BuiltinError("AttributeError", "object has no attribute 'replace'"))

FormatD(v) ==
    \* %d applied to v: decimal text, TypeError unless v is a number
    IF v.type = "int" THEN Returns(DecStr(v.val))
    ELSE Raises(BuiltinError("TypeError", "%d format: a real number is required"))

as_xml(ch) ==
    LET t == escape(ch.ch_type)
        a == FormatD(ch.major_ch)
        b == FormatD(ch.minor_ch)
        c == FormatD(ch.ptc)
        d == FormatD(ch.prog_num)
    IN  IF ~t.ok THEN t
        ELSE IF ~a.ok THEN a
        ELSE IF ~b.ok THEN b
        ELSE IF ~c.ok THEN c
        ELSE IF ~d.ok THEN d
        ELSE Returns(XmlPart1 \o t.val \o XmlPart2 \o a.val \o XmlPart3 \o b.val
                     \o XmlPart4 \o c.val \o XmlPart5 \o d.val \o XmlPart6)

NoSource == [kind |-> "none", buf |-> <<>>, node |-> Text(<<>>)]
FromBytes(buf) == [kind |-> "bytes", buf |-> buf, node |-> Text(<<>>)]
FromNode(node) == [kind |-> "node", buf |-> <<>>, node |-> node]

NoCopy == [done |-> FALSE, ok |-> FALSE, ch |-> NoChannel, exc |-> NoException]

NoParams == [ChannelListType |-> "", Channel |-> <<>>, SatelliteID |-> 0]

as_params(ch, chtype, sid) ==
    LET x == as_xml(ch)
    IN  IF x.ok
        THEN [ok |-> TRUE, exc |-> NoException,
              val |-> [ChannelListType |-> chtype, Channel |-> x.val, SatelliteID |-> sid]]
        ELSE [ok |-> FALSE, exc |-> x.exc, val |-> NoParams]

----------------------------------------------------------------------------
(* xml.dom.minidom.parseString, for the documents as_xml writes: a         *)
(* declaration, start tags and end tags without attributes, and character  *)
(* data with the predefined entities.                                      *)

Nth(S, k) ==
    \* the k-th smallest member of a set of positions
    CHOOSE p \in S : Cardinality({q \in S : q < p}) = k - 1

EntityAmp == <<97, 109, 112>>        \* "amp"
EntityLt == <<108, 116>>             \* "lt"
EntityGt == <<103, 116>>             \* "gt"
EntityQuot == <<113, 117, 111, 116>> \* "quot"
EntityApos == <<97, 112, 111, 115>>  \* "apos"

EntityChar(name) ==
    IF name = EntityAmp THEN <<38>>
    ELSE IF name = EntityLt THEN <<60>>
    ELSE IF name = EntityGt THEN <<62>>
    ELSE IF name = EntityQuot THEN <<34>>
    ELSE IF name = EntityApos THEN <<39>>
    ELSE <<>>

RECURSIVE ConcatRange(_, _, _)
ConcatRange(parts, lo, hi) ==
    IF lo > hi THEN <<>>
    ELSE IF lo = hi THEN parts[lo]
    ELSE LET mid == (lo + hi) \div 2
         IN  ConcatRange(parts, lo, mid) \o ConcatRange(parts, mid + 1, hi)

Unescape(s) ==
    \* character data with its entity references replaced
    LET amps == {i \in 1..Len(s) : s[i] = 38}
        HasEnd(i) == \E j \in (i + 1)..Len(s) : s[j] = 59
        End(i) == Nth({j \in (i + 1)..Len(s) : s[j] = 59}, 1)
        Name(i) == Slice(s, i, End(i) - 1)
        ok == \A i \in amps : HasEnd(i) /\ EntityChar(Name(i)) # <<>>
        parts == [i \in 1..Len(s) |->
                    IF i \in amps THEN EntityChar(Name(i))
                    ELSE IF \E a \in amps : a < i /\ i <= End(a) THEN <<>>
                    ELSE <<s[i]>>]
    IN  IF ok THEN [ok |-> TRUE, text |-> ConcatRange(parts, 1, Len(s))]
        ELSE [ok |-> FALSE, text |-> <<>>]

Tokens(text) ==
    \* the tags of the document in order, each with the character data that
    \* follows it
    LET lts == {i \in 1..Len(text) : text[i] = 60}
        gts == {i \in 1..Len(text) : text[i] = 62}
        n == Cardinality(lts)
        lt == [k \in 1..n |-> Nth(lts, k)]
        gt == [k \in 1..Cardinality(gts) |-> Nth(gts, k)]
        ok == /\ n > 0
              /\ Cardinality(gts) = n
              /\ lt[1] = 1
              /\ \A k \in 1..n : lt[k] < gt[k]
              /\ \A k \in 1..(n - 1) : gt[k] < lt[k + 1]
    IN  IF ~ok THEN [ok |-> FALSE, toks |-> <<>>]
        ELSE [ok |-> TRUE,
              toks |-> [k \in 1..n |->
                          [tag |-> Slice(text, lt[k], gt[k] - 1),
                           data |-> Slice(text, gt[k],
                                          IF k < n THEN lt[k + 1] - 1
                                          ELSE Len(text))]]]

Push(stack, tag) == Append(stack, [tag |-> tag, childNodes |-> <<>>])

AddChild(stack, node) ==
    [stack EXCEPT ![Len(stack)].childNodes = Append(@, node)]

RECURSIVE Build(_, _, _)
Build(toks, k, stack) ==
    \* the tree after tokens k.. with the open elements in stack; stack[1]
    \* collects the children of the document
    IF k > Len(toks)
    THEN IF Len(stack) = 1 /\ Len(stack[1].childNodes) = 1
         THEN [ok |-> TRUE, doc |-> Document(stack[1].childNodes[1])]
         ELSE [ok |-> FALSE, doc |-> Document(Text(<<>>))]
    ELSE LET tag == toks[k].tag
             data == Unescape(toks[k].data)
             after ==
                IF tag = <<>> THEN <<>>
                ELSE IF tag[1] = 63 THEN stack                   \* <?xml ... ?>
                ELSE IF tag[1] = 47                              \* </tag>
                THEN IF Len(stack) > 1 /\ stack[Len(stack)].tag = Tail(tag)
                     THEN AddChild(SubSeq(stack, 1, Len(stack) - 1),
                                   Element(Tail(tag), stack[Len(stack)].childNodes))
                     ELSE <<>>
                ELSE Push(stack, tag)
         IN  IF after = <<>> \/ ~data.ok
                \/ (data.text # <<>> /\ Len(after) = 1)
             THEN [ok |-> FALSE, doc |-> Document(Text(<<>>))]
             ELSE Build(toks, k + 1,
                        IF data.text = <<>> THEN after
                        ELSE AddChild(after, Text(data.text)))

parseString(text) ==
    LET t == Tokens(text)
    IN  IF t.ok THEN Build(t.toks, 1, <<[tag |-> <<>>, childNodes |-> <<>>]>>)
        ELSE [ok |-> FALSE, doc |-> Document(Text(<<>>))]

documentElement(doc) == doc.childNodes[1]

----------------------------------------------------------------------------
(* The buffers the decoder is run on.                                      *)

U16(n) == <<n % 256, n \div 256>>

Rep(b, n) == [i \in 1..n |-> b]

PadTo(s, n, fill) == s \o Rep(fill, n - Len(s))

Tele5 == <<84, 101, 108, 101, 53>>

MkRecord(t, major, minor, ptc, prog, res, disp, tl) ==
    \* the 124 bytes of one entry: tl = <<title length, 100 title bytes>>
    U16(t) \o U16(major) \o U16(minor) \o U16(ptc) \o U16(prog) \o U16(res)
    \o disp \o Rep(0, 6) \o U16(tl[1]) \o tl[2]

BaseFields ==
    <<4, 7, 0, 33, 1, Reserved, <<55, 0, 0, 0>>, <<5, PadTo(Tele5, 100, 0)>> >>

TypeCodes == {0, 1, 2, 3, 4, 5, 258, 1024, 65535}
MajorValues == {7, 300}
MinorValues == {0, 65535}
PtcValues == {33}
ProgValues == {1, 256}
ReservedValues == {Reserved, 0, 255, 65280, 65534}
DispnoValues ==
    { <<55, 0, 0, 0>>,        \* "7"
      <<49, 50, 0, 0>>,       \* "12"
      <<49, 48, 48, 49>>,     \* "1001"
      <<0, 0, 0, 0>>,         \* ""
      <<0, 55, 0, 0>>,        \* NUL, "7"
      <<195, 169, 0, 0>>,     \* e-acute, two bytes
      <<255, 0, 0, 0>> }      \* not UTF-8
TitleValues ==
    { <<5, PadTo(Tele5, 100, 0)>>,
      <<0, PadTo(Tele5, 100, 0)>>,
      <<3, PadTo(Tele5, 100, 0)>>,
      <<5, PadTo(Tele5, 100, 255)>>,
      <<100, Rep(65, 100)>>,
      <<101, Rep(65, 100)>>,
      <<65535, PadTo(Tele5, 100, 0)>>,
      <<200, PadTo(Tele5, 100, 255)>>,
      <<2, PadTo(<<195, 169>>, 100, 0)>>,
      <<1, PadTo(<<195, 169>>, 100, 0)>>,
      <<2, PadTo(<<195, 40>>, 100, 0)>> }

FieldTuples ==
    TypeCodes \X MajorValues \X MinorValues \X PtcValues \X ProgValues
    \X ReservedValues \X DispnoValues \X TitleValues

Deviations(f) == Cardinality({i \in 1..8 : f[i] # BaseFields[i]})

Records ==
    \* every entry that differs from the base entry in few fields
    { MkRecord(f[1], f[2], f[3], f[4], f[5], f[6], f[7], f[8]) :
        f \in {g \in FieldTuples : Deviations(g) <= MaxDeviations} }

ListRecords ==
    \* the entries of the multi-entry buffers: three valid ones, two of them
    \* with the same display number, and one for each kind of failure
    { MkRecord(4, 7, 0, 33, 1, Reserved, <<55, 0, 0, 0>>, <<5, PadTo(Tele5, 100, 0)>>),
      MkRecord(3, 300, 1, 34, 2, Reserved, <<55, 0, 0, 0>>, <<0, Rep(0, 100)>>),
      MkRecord(2, 12, 0, 35, 3, Reserved, <<49, 50, 0, 0>>, <<5, PadTo(Tele5, 100, 0)>>),
      MkRecord(5, 7, 0, 33, 1, Reserved, <<55, 0, 0, 0>>, <<5, PadTo(Tele5, 100, 0)>>),
      MkRecord(4, 7, 0, 33, 1, 0, <<55, 0, 0, 0>>, <<5, PadTo(Tele5, 100, 0)>>),
      MkRecord(4, 7, 0, 33, 1, Reserved, <<255, 0, 0, 0>>, <<5, PadTo(Tele5, 100, 0)>>) }

RECURSIVE Flatten(_)
Flatten(rs) == IF rs = <<>> THEN <<>> ELSE Head(rs) \o Flatten(Tail(rs))

Resize(buf, delta) ==
    \* the buffer with -delta bytes cut off its end, or delta bytes added
    IF delta < 0 THEN SubSeq(buf, 1, Len(buf) + delta)
    ELSE buf \o Rep(0, delta)

Deltas == {-4, -1, 0, 1}

HeaderCounts(n) == {n, n + 1, n + 256}
HeaderPrefixes == { <<0, 0>>, <<255, 1>> }

RichBuffers ==
    \* one entry, a header that declares one entry
    { <<0, 0>> \o U16(1) \o r : r \in Records }

ListBuffers ==
    \* 0..MaxRecords entries; the header count right or wrong, the length
    \* right, off by one, or short by the size of the header
    UNION { { Resize(p \o U16(c) \o Flatten(rs), d) :
                p \in HeaderPrefixes, c \in HeaderCounts(n),
                rs \in [1..n -> ListRecords], d \in Deltas } :
            n \in 0..MaxRecords }

Buffers == RichBuffers \cup ListBuffers

----------------------------------------------------------------------------
(* Channel._parse_channel_list, one action per step of the call.           *)

CountMismatchError(n, actual, expected) ==
    \* the raise statement of lines 63-68: no comma separates the message
    \* from the context, so the formatted message (a str) is called with the
    \* context as its argument, and that call raises TypeError before any
    \* ParseException is constructed
    BuiltinError("TypeError", "'str' object is not callable")

SetIfAbsent(map, key, value) ==
    [k \in DOMAIN map \cup {key} |-> IF k \in DOMAIN map THEN map[k] ELSE value]

SetItem(map, key, value) ==
    \* channels[key] = value
    [k \in DOMAIN map \cup {key} |-> IF k = key THEN value ELSE map[k]]

Init ==
    /\ channel_list \in Buffers
    /\ pc = "size_check"
    /\ pos = 0
    /\ channels = <<>>
    /\ exc = NoException
    /\ decoded = <<>>
    /\ source = NoSource
    /\ self = NoChannel
    /\ cpc = "idle"
    /\ cexc = NoException
    /\ calls = <<>>
    /\ copy = NoCopy
    /\ ContextIdle
    /\ DeviceIdle

TooSmallForHeader(n) == n < HeaderSize

TooSmall(n) == n < MinListSize

CheckSize ==
    /\ pc = "size_check"
    /\ IF TooSmall(Len(channel_list))
       THEN /\ exc' = ParseExceptionWith(MsgSize(Len(channel_list)),
                                         FmtChannelList(channel_list))
            /\ pc' = "raised"
       ELSE /\ pc' = "format_check"
            /\ UNCHANGED exc
    /\ UNCHANGED <<channel_list, pos, channels, decoded, channel_vars, context_vars, device_vars>>

NotMultipleWithHeader(n) == n % RecordSize # 0

NotMultiple(n) == (n - HeaderSize) % RecordSize # 0

CheckFormat ==
    /\ pc = "format_check"
    /\ IF NotMultiple(Len(channel_list))
       THEN /\ exc' = ParseExceptionWith(MsgFormat(Len(channel_list)),
                                         FmtChannelList(channel_list))
            /\ pc' = "raised"
       ELSE /\ pc' = "count_check"
            /\ UNCHANGED exc
    /\ UNCHANGED <<channel_list, pos, channels, decoded, channel_vars, context_vars, device_vars>>

CheckCount ==
    /\ pc = "count_check"
    /\ LET actual_channel_list_len == (Len(channel_list) - HeaderSize) \div RecordSize
           expected_channel_list_len == _getint(channel_list, 2)
       IN  IF actual_channel_list_len # expected_channel_list_len
           THEN /\ exc' = CountMismatchError(Len(channel_list),
                                             actual_channel_list_len,
                                             expected_channel_list_len)
                /\ pc' = "raised"
                /\ UNCHANGED <<pos, channels>>
           ELSE /\ channels' = <<>>
                /\ pos' = HeaderSize
                /\ pc' = "loop"
                /\ UNCHANGED exc
    /\ UNCHANGED <<channel_list, decoded, channel_vars, context_vars, device_vars>>

MoreChunksButLast(p, n) == p + RecordSize < n

MoreChunks(p, n) ==
    \* while pos < len(channel_list)
    p < n

Caught(e) ==
    \* except ParseException as pe
    e.cls = "ParseException"

DecodeChunk ==
    /\ pc = "loop"
    /\ MoreChunks(pos, Len(channel_list))
    /\ LET chunk == Slice(channel_list, pos, pos + RecordSize)
           r == Channel(chunk)
       IN  /\ decoded' = Append(decoded, pos)
           /\ IF r.ok
              THEN /\ channels' = SetItem(channels, r.ch.dispno, r.ch)
                   /\ pos' = pos + RecordSize
                   /\ UNCHANGED <<pc, exc>>
              ELSE /\ exc' = IF Caught(r.exc)
                             THEN add_context(r.exc, FmtChunk(pos, chunk))
                             ELSE r.exc
                   /\ pc' = "raised"
                   /\ UNCHANGED <<pos, channels>>
    /\ UNCHANGED <<channel_list, channel_vars, context_vars, device_vars>>

Return ==
    /\ pc = "loop"
    /\ ~MoreChunks(pos, Len(channel_list))
    /\ pc' = "done"
    /\ UNCHANGED <<channel_list, pos, channels, exc, decoded, channel_vars, context_vars, device_vars>>

Next == CheckSize \/ CheckFormat \/ CheckCount \/ DecodeChunk \/ Return

Spec == Init /\ [][Next]_vars

----------------------------------------------------------------------------
(* One Channel: construction from a record or from an XML element, then    *)
(* calls of as_xml and as_params on it, and the way back through the XML   *)
(* it wrote.                                                               *)

TagX == <<88>>                            \* X
TagB == <<66>>                            \* B
Special == <<97, 60, 98, 38, 99, 62>>    \* a<b&c>
TextNo == <<110, 111>>                    \* no
TextC == <<99>>                           \* c

FieldTags == <<TagChType, TagMajorCh, TagMinorCh, TagPTC, TagProgNum>>

Forms == {"text", "missing", "empty", "nested", "element", "comment"}

FieldNodes(tag, text, form) ==
    \* the child elements written for one field
    IF form = "text" THEN <<Element(tag, <<Text(text)>>)>>
    ELSE IF form = "missing" THEN <<>>
    ELSE IF form = "empty" THEN <<Element(tag, <<>>)>>
    ELSE IF form = "nested" THEN <<Element(tag, <<Element(TagB, <<>>)>>)>>
    ELSE IF form = "element"
         THEN <<Element(tag, <<Element(TagB, <<>>), Text(text)>>)>>
    ELSE <<Element(tag, <<Comment(TextC), Text(text)>>)>>

Decoy == Element(TagX, <<Element(TagChType, <<Text(TextNo)>>)>>)

ChannelElement(forms, ch_type, major_ch, decoy) ==
    Element(TagChannel,
            (IF decoy THEN <<Decoy>> ELSE <<>>)
            \o FieldNodes(TagChType, ch_type, forms[1])
            \o FieldNodes(TagMajorCh, DecStr(major_ch), forms[2])
            \o FieldNodes(TagMinorCh, DecStr(0), forms[3])
            \o FieldNodes(TagPTC, DecStr(33), forms[4])
            \o FieldNodes(TagProgNum, DecStr(1), forms[5]))

FormTuples ==
    {f \in [1..5 -> Forms] :
        Cardinality({i \in 1..5 : f[i] # "text"}) <= MaxDeviations}

Elements ==
    {ChannelElement(f, t, 7, FALSE) : f \in FormTuples, t \in {CDTV, Special}}
    \cup {ChannelElement([i \in 1..5 |-> "text"], CDTV, m, d) :
            m \in MajorValues, d \in BOOLEAN}

Nodes ==
    Elements
    \cup {Document(ChannelElement([i \in 1..5 |-> "text"], t, 7, FALSE)) :
            t \in {CDTV, Special}}

ChannelRecords ==
    \* every entry that differs from the base entry in at most one field
    { MkRecord(f[1], f[2], f[3], f[4], f[5], f[6], f[7], f[8]) :
        f \in {g \in FieldTuples : Deviations(g) <= 1} }

Sources == {FromBytes(r) : r \in ChannelRecords} \cup {FromNode(n) : n \in Nodes}

ListTypes == {"0x01", "0x02"}
SatelliteIds == {0, 1}

Call(op, chtype, sid, ret) ==
    [op |-> op, chtype |-> chtype, sid |-> sid, ret |-> ret]

SelfEscaped(ch) ==
    [ch EXCEPT !.ch_type = IF escape(@).ok THEN PyStr(escape(@).val) ELSE @]

SelfAfter(ch) ==
    \* as_xml and as_params assign no attribute of self
    ch

InitChannel ==
    /\ source \in Sources
    /\ self = NoChannel
    /\ cpc = "new"
    /\ cexc = NoException
    /\ calls = <<>>
    /\ copy = NoCopy
    /\ channel_list = <<>>
    /\ pc = "idle"
    /\ pos = 0
    /\ channels = <<>>
    /\ exc = NoException
    /\ decoded = <<>>
    /\ ContextIdle
    /\ DeviceIdle

Construct ==
    \* Channel(from_dat): _parse_xml for a minidom node, else _parse_dat
    /\ cpc = "new"
    /\ LET r == IF source.kind = "node" THEN ChannelFromNode(source.node)
                ELSE Channel(source.buf)
       IN  IF r.ok
           THEN /\ self' = r.ch
                /\ cpc' = "built"
                /\ UNCHANGED cexc
           ELSE /\ cexc' = r.exc
                /\ cpc' = "raised"
                /\ UNCHANGED self
    /\ UNCHANGED <<source, calls, copy, list_vars, context_vars, device_vars>>

AsXml ==
    /\ cpc = "built"
    /\ Len(calls) < MaxCalls
    /\ calls' = Append(calls, Call("as_xml", "", 0, as_xml(self)))
    /\ self' = SelfAfter(self)
    /\ UNCHANGED <<source, cpc, cexc, copy, list_vars, context_vars, device_vars>>

AsParams(chtype, sid) ==
    /\ cpc = "built"
    /\ Len(calls) < MaxCalls
    /\ calls' = Append(calls, Call("as_params", chtype, sid,
                                   as_params(self, chtype, sid)))
    /\ self' = SelfAfter(self)
    /\ UNCHANGED <<source, cpc, cexc, copy, list_vars, context_vars, device_vars>>

ChannelFromXml(text) ==
    \* Channel(parseString(text).documentElement)
    LET d == parseString(text)
        r == IF d.ok THEN ChannelFromNode(documentElement(d.doc))
             ELSE Raise(BuiltinError("ExpatError", "not well-formed"))
    IN  [done |-> TRUE, ok |-> r.ok, ch |-> r.ch, exc |-> r.exc]

Reparse ==
    \* the way back, on a document as_xml returned
    /\ cpc = "built"
    /\ ~copy.done
    /\ \E i \in 1..Len(calls) :
          /\ calls[i].op = "as_xml"
          /\ calls[i].ret.ok
          /\ copy' = ChannelFromXml(calls[i].ret.val)
    /\ UNCHANGED <<source, self, cpc, cexc, calls, list_vars, context_vars, device_vars>>

NextChannel ==
    \/ Construct
    \/ AsXml
    \/ \E chtype \in ListTypes, sid \in SatelliteIds : AsParams(chtype, sid)
    \/ Reparse

SpecChannel == InitChannel /\ [][NextChannel]_vars

----------------------------------------------------------------------------
(* ContextException objects and their context lists.  A list is an object  *)
(* on the heap, named by its index; two names for one list see each        *)
(* other's appends.                                                        *)

ListIdle ==
    /\ channel_list = <<>>
    /\ pc = "idle"
    /\ pos = 0
    /\ channels = <<>>
    /\ exc = NoException
    /\ decoded = <<>>

ChannelIdle ==
    /\ source = NoSource
    /\ self = NoChannel
    /\ cpc = "idle"
    /\ cexc = NoException
    /\ calls = <<>>
    /\ copy = NoCopy

DefaultContext == 1     \* the list made once for the default context=[]
CallerList == 2         \* a list of the caller, passed as context

ContextA == <<97>>      \* "a"
ContextB == <<98>>      \* "b"
Contexts == {ContextA, ContextB}

SameList(h, context) ==
    [heap |-> h, ref |-> context]

list(h, context) ==
    \* list(context): a new list with the elements of context
    [heap |-> Append(h, h[context]), ref |-> Len(h) + 1]

InitContext ==
    /\ heap = << <<>>, <<ContextA>> >>
    /\ instances = <<>>
    /\ ListIdle
    /\ ChannelIdle
    /\ DeviceIdle

New(context) ==
    \* ParseException(msg) or ParseException(msg, context):
    \* self.msg = msg; self.context = list(context)
    /\ Len(instances) < MaxInstances
    /\ LET l == list(heap, context)
       IN  /\ heap' = l.heap
           /\ instances' = Append(instances,
                                  [msg |-> Msg("m", <<>>), context |-> l.ref,
                                   arg |-> context])
    /\ UNCHANGED <<list_vars, channel_vars, device_vars>>

NewDefault == New(DefaultContext)

NewWithContext == New(CallerList)

AddContext(i, c) ==
    \* instances[i].add_context(c): self.context.append(context)
    /\ Len(heap[instances[i].context]) < MaxContext
    /\ heap' = [heap EXCEPT ![instances[i].context] = Append(@, c)]
    /\ UNCHANGED <<instances, list_vars, channel_vars, device_vars>>

NextContext ==
    \/ NewDefault
    \/ NewWithContext
    \/ \E i \in 1..Len(instances), c \in Contexts : AddContext(i, c)

SpecContext == InitContext /\ [][NextContext]_vars

-----------------------------------------------------------------------------
(* The media player entity (media_player.py).  SpecDevice follows one      *)
(* SamsungTVDevice from its construction.  Every await of the code is a     *)
(* point where the other coroutines and callbacks may run; the code between *)
(* two awaits is one step.  Home Assistant runs one async_update of an      *)
(* entity at a time and polls again only at the next scan interval, when    *)
(* the tasks of the previous poll have come to rest; it polls no entity     *)
(* whose removal has begun.  The library calls (bridge, UPnP) answer with   *)
(* any of the outcomes the code distinguishes.  The entity commands are     *)
(* followed on an entity without UPnP locations, the UPnP life cycle on one *)
(* with them.                                                               *)

Time(t) == [type |-> "datetime", val |-> t]

SCAN_INTERVAL_PLUS_OFF_TIME == 1    \* in ticks of the clock

MaxTime == 2        \* the clock stops here

MaxUpdates == 2     \* async_update calls followed

Config(rendering_control, main_tv_agent, mac) ==
    [rendering_control |-> rendering_control, main_tv_agent |-> main_tv_agent,
     mac |-> mac]

Configs ==
    {Config(FALSE, FALSE, TRUE), Config(TRUE, FALSE, FALSE),
     Config(FALSE, TRUE, FALSE), Config(TRUE, TRUE, TRUE)}

Apps == {"Netflix"}

AppLists == {{}, Apps}

MediaIds == {<<"1", "2">>}

Rest == {"idle", "done", "raised"}

TasksAtRest == app_pc \in Rest /\ dmr_pc \in Rest /\ src_pc \in Rest

cmd_vars == <<_end_of_power_off, _playing, last_call>>

flag_vars == <<_auth_failed, reauth, is_stopping>>

app_vars == <<_app_list, _app_list_event, _attr_source_list, app_list_requests>>

dmr_vars == <<_dmr_device, _upnp_server, servers, dmr_server>>

task_vars == <<upc, app_pc, dmr_pc, src_pc>>

rem_vars == <<rpc, upnp_server>>

other_specs == <<list_vars, channel_vars, context_vars>>

DeviceConstructed ==
    \* __init__
    /\ now = 0
    /\ _end_of_power_off = NoTime
    /\ _auth_failed = FALSE
    /\ reauth = FALSE
    /\ is_stopping = FALSE
    /\ _attr_state = "None"
    /\ _playing = TRUE
    /\ _app_list = {}
    /\ _app_list_event = FALSE
    /\ _attr_source_list = "None"
    /\ _dmr_device = None
    /\ _upnp_server = None
    /\ servers = <<>>
    /\ upc = "idle"
    /\ app_pc = "idle"
    /\ dmr_pc = "idle"
    /\ dmr_server = None
    /\ src_pc = "idle"
    /\ rpc = "idle"
    /\ upnp_server = None
    /\ last_call = NoCall
    /\ logged = {}
    /\ app_list_requests = 0
    /\ updates = 0

InitDevice ==
    /\ config \in Configs
    /\ DeviceConstructed
    /\ ListIdle
    /\ ChannelIdle
    /\ ContextIdle

PowerOffAfterDeadline(deadline, t) ==
    deadline # NoTime /\ deadline.val < t

_power_off_in_progress(deadline, t) ==
    deadline # NoTime /\ deadline.val > t

\* of an entity without a turn-on script
available ==
    IF _auth_failed
    THEN FALSE
    ELSE \/ _attr_state = "on"
         \/ config.mac
         \/ _power_off_in_progress(_end_of_power_off, now)

\* the record of a command handed to the bridge
Forward(call, keys) ==
    [call |-> call, keys |-> keys]

_async_send_keys(keys) ==
    IF _power_off_in_progress(_end_of_power_off, now) /\ keys[1] # "KEY_POWEROFF"
    THEN /\ logged' = logged \cup {"not sending keys"}
         /\ UNCHANGED last_call
    ELSE /\ last_call' = Forward("send_keys", keys)
         /\ UNCHANGED logged

_async_launch_app(app_id) ==
    IF _power_off_in_progress(_end_of_power_off, now)
    THEN /\ logged' = logged \cup {"not sending launch_app command"}
         /\ UNCHANGED last_call
    ELSE /\ last_call' = Forward("launch_app", <<app_id>>)
         /\ UNCHANGED logged

\* the entity is under command: it has no UPnP locations and is not removed
Commanded ==
    /\ ~config.rendering_control
    /\ ~config.main_tv_agent
    /\ rpc = "idle"

CommandFrame ==
    UNCHANGED <<config, now, flag_vars, _attr_state, app_vars, dmr_vars,
                task_vars, rem_vars, updates, other_specs>>

Tick ==
    \* time passes; before the first power-off no deadline reads the clock
    /\ _end_of_power_off # NoTime
    /\ now < MaxTime
    /\ now' = now + 1
    /\ UNCHANGED <<config, cmd_vars, logged, flag_vars, _attr_state,
                   app_vars, dmr_vars, task_vars, rem_vars, updates,
                   other_specs>>

async_turn_off ==
    /\ Commanded
    /\ _end_of_power_off' = Time(now + SCAN_INTERVAL_PLUS_OFF_TIME)
    /\ last_call' = Forward("power_off", <<>>)
    /\ UNCHANGED <<_playing, logged>>
    /\ CommandFrame

async_volume_up ==
    /\ Commanded
    /\ _async_send_keys(<<"KEY_VOLUP">>)
    /\ UNCHANGED <<_end_of_power_off, _playing>>
    /\ CommandFrame

async_volume_down ==
    /\ Commanded
    /\ _async_send_keys(<<"KEY_VOLDOWN">>)
    /\ UNCHANGED <<_end_of_power_off, _playing>>
    /\ CommandFrame

async_mute_volume ==
    /\ Commanded
    /\ _async_send_keys(<<"KEY_MUTE">>)
    /\ UNCHANGED <<_end_of_power_off, _playing>>
    /\ CommandFrame

async_media_play ==
    /\ Commanded
    /\ _playing' = TRUE
    /\ _async_send_keys(<<"KEY_PLAY">>)
    /\ UNCHANGED _end_of_power_off
    /\ CommandFrame

async_media_pause ==
    /\ Commanded
    /\ _playing' = FALSE
    /\ _async_send_keys(<<"KEY_PAUSE">>)
    /\ UNCHANGED _end_of_power_off
    /\ CommandFrame

async_media_play_pause ==
    /\ Commanded
    /\ _playing' = ~_playing
    /\ _async_send_keys(IF _playing THEN <<"KEY_PAUSE">> ELSE <<"KEY_PLAY">>)
    /\ UNCHANGED _end_of_power_off
    /\ CommandFrame

async_media_next_track ==
    /\ Commanded
    /\ _async_send_keys(<<"KEY_CHUP">>)
    /\ UNCHANGED <<_end_of_power_off, _playing>>
    /\ CommandFrame

async_media_previous_track ==
    /\ Commanded
    /\ _async_send_keys(<<"KEY_CHDOWN">>)
    /\ UNCHANGED <<_end_of_power_off, _playing>>
    /\ CommandFrame

ChannelKeys(media_id) ==
    [i \in 1..Len(media_id) + 1 |->
        IF i <= Len(media_id)
        THEN IF media_id[i] = "1" THEN "KEY_1" ELSE "KEY_2"
        ELSE "KEY_ENTER"]

async_play_media(media_type, media_id) ==
    /\ Commanded
    /\ IF media_type = "app"
       THEN _async_launch_app(media_id[1])
       ELSE IF media_type # "channel"
            THEN UNCHANGED <<last_call, logged>>
            ELSE _async_send_keys(ChannelKeys(media_id))
    /\ UNCHANGED <<_end_of_power_off, _playing>>
    /\ CommandFrame

async_select_source(src) ==
    /\ Commanded
    /\ IF _app_list # {} /\ src \in _app_list
       THEN _async_launch_app(src)
       ELSE UNCHANGED <<last_call, logged>>
    /\ UNCHANGED <<_end_of_power_off, _playing>>
    /\ CommandFrame

access_denied ==
    /\ _auth_failed' = TRUE
    /\ reauth' = TRUE
    /\ UNCHANGED <<config, now, cmd_vars, logged, is_stopping, _attr_state,
                   app_vars, dmr_vars, task_vars, rem_vars, updates,
                   other_specs>>

Stop ==
    \* Home Assistant begins to stop
    /\ ~is_stopping
    /\ is_stopping' = TRUE
    /\ UNCHANGED <<config, now, cmd_vars, logged, _auth_failed, reauth,
                   _attr_state, app_vars, dmr_vars, task_vars, rem_vars,
                   updates, other_specs>>

_app_list_callback(app_list) ==
    \* the bridge answers a request; _update_sources raises on a non-empty
    \* list while no source list exists, before the event is set
    /\ app_list_requests > 0
    /\ _app_list' = app_list
    /\ _app_list_event' =
           IF app_list # {} /\ _attr_source_list = "None"
           THEN _app_list_event
           ELSE TRUE
    /\ UNCHANGED <<config, now, cmd_vars, logged, flag_vars, _attr_state,
                   _attr_source_list, app_list_requests, dmr_vars, task_vars,
                   rem_vars, updates, other_specs>>

UpdateSkipsOnlyWhenStopping == is_stopping

UpdateSkips == _auth_failed \/ is_stopping

\* async_update from the point where self._attr_state is known
StartupTasks(state) ==
    \E is_subscribed \in BOOLEAN :
        IF state # "on"
        THEN /\ upc' = IF _dmr_device # None /\ is_subscribed
                       THEN "unsubscribe"
                       ELSE "idle"
             /\ UNCHANGED <<app_pc, dmr_pc, src_pc>>
        ELSE LET app == ~_app_list_event
                 resubscribe == _dmr_device # None /\ ~is_subscribed
                 dmr == _dmr_device = None /\ config.rendering_control
                 src == config.main_tv_agent
             IN  /\ app_pc' = IF app THEN "start" ELSE "idle"
                 /\ dmr_pc' = IF resubscribe THEN "resubscribe"
                              ELSE IF dmr THEN "start" ELSE "idle"
                 /\ src_pc' = IF src THEN "start" ELSE "idle"
                 /\ upc' = IF app \/ resubscribe \/ dmr \/ src
                           THEN "gather"
                           ELSE "idle"

async_update ==
    /\ upc = "idle"
    /\ TasksAtRest
    /\ rpc = "idle"
    /\ updates < MaxUpdates
    /\ updates' = updates + 1
    /\ IF UpdateSkips
       THEN UNCHANGED <<_attr_state, task_vars>>
       ELSE IF _power_off_in_progress(_end_of_power_off, now)
            THEN /\ _attr_state' = "off"
                 /\ StartupTasks("off")
            ELSE /\ upc' = "is_on"
                 /\ UNCHANGED <<_attr_state, app_pc, dmr_pc, src_pc>>
    /\ UNCHANGED <<config, now, cmd_vars, logged, flag_vars, app_vars,
                   dmr_vars, rem_vars, other_specs>>

IsOnReturns ==
    \* await self._bridge.async_is_on() returns
    /\ upc = "is_on"
    /\ \E state \in {"on", "off"} :
        /\ _attr_state' = state
        /\ StartupTasks(state)
    /\ UNCHANGED <<config, now, cmd_vars, logged, flag_vars, app_vars,
                   dmr_vars, rem_vars, updates, other_specs>>

UpdateFrame ==
    UNCHANGED <<config, now, cmd_vars, logged, flag_vars, _attr_state,
                updates, other_specs>>

UnsubscribeReturns ==
    \* await self._dmr_device.async_unsubscribe_services() returns
    /\ upc = "unsubscribe"
    /\ upc' = "idle"
    /\ UNCHANGED <<app_pc, dmr_pc, src_pc, app_vars, dmr_vars, rem_vars>>
    /\ UpdateFrame

GatherReturns ==
    \* every startup task has returned; _update_from_upnp
    /\ upc = "gather"
    /\ app_pc \in {"idle", "done"}
    /\ dmr_pc \in {"idle", "done"}
    /\ src_pc \in {"idle", "done"}
    /\ upc' = "idle"
    /\ UNCHANGED <<app_pc, dmr_pc, src_pc, app_vars, dmr_vars, rem_vars>>
    /\ UpdateFrame

GatherRaises ==
    \* a startup task has raised: the update ends, the other tasks go on
    /\ upc = "gather"
    /\ "raised" \in {app_pc, dmr_pc, src_pc}
    /\ upc' = "idle"
    /\ UNCHANGED <<app_pc, dmr_pc, src_pc, app_vars, dmr_vars, rem_vars>>
    /\ UpdateFrame

AppListRequest ==
    \* _async_startup_app_list calls the bridge
    /\ app_pc = "start"
    /\ app_pc' = "request"
    /\ app_list_requests' = app_list_requests + 1
    /\ UNCHANGED <<upc, dmr_pc, src_pc, _app_list, _app_list_event,
                   _attr_source_list, dmr_vars, rem_vars>>
    /\ UpdateFrame

AppListRequested ==
    \* the request returns: wait for the event unless it is set
    /\ app_pc = "request"
    /\ app_pc' = IF _app_list_event THEN "done" ELSE "wait"
    /\ UNCHANGED <<upc, dmr_pc, src_pc, app_vars, dmr_vars, rem_vars>>
    /\ UpdateFrame

AppListLoaded ==
    \* wait_for returns: the event was set
    /\ app_pc = "wait"
    /\ _app_list_event
    /\ app_pc' = "done"
    /\ UNCHANGED <<upc, dmr_pc, src_pc, app_vars, dmr_vars, rem_vars>>
    /\ UpdateFrame

TimeoutIgnored(event) == event

OnTimeout(event) == TRUE

AppListTimeout ==
    \* APP_LIST_DELAY has passed without the event
    /\ app_pc = "wait"
    /\ ~_app_list_event
    /\ _app_list_event' = OnTimeout(_app_list_event)
    /\ app_pc' = "done"
    /\ UNCHANGED <<upc, dmr_pc, src_pc, _app_list, _attr_source_list,
                   app_list_requests, dmr_vars, rem_vars>>
    /\ UpdateFrame

SourceListStart ==
    \* _async_startup_source_list awaits _async_get_main_tv_agent
    /\ src_pc = "start"
    /\ src_pc' = "agent"
    /\ UNCHANGED <<upc, app_pc, dmr_pc, app_vars, dmr_vars, rem_vars>>
    /\ UpdateFrame

SourceListAgent ==
    \* the agent is there, or the device could not be created
    /\ src_pc = "agent"
    /\ \E service \in {"None", "service"} :
        src_pc' = IF service = "None" THEN "done" ELSE "call"
    /\ UNCHANGED <<upc, app_pc, dmr_pc, app_vars, dmr_vars, rem_vars>>
    /\ UpdateFrame

SourceListCall ==
    \* GetSourceList answers with a source list, or with what cannot be read
    /\ src_pc = "call"
    /\ \E readable \in BOOLEAN :
        /\ src_pc' = IF readable THEN "done" ELSE "raised"
        /\ _attr_source_list' = IF readable THEN "list" ELSE _attr_source_list
    /\ UNCHANGED <<upc, app_pc, dmr_pc, _app_list, _app_list_event,
                   app_list_requests, dmr_vars, rem_vars>>
    /\ UpdateFrame

DmrFrame ==
    /\ UNCHANGED <<upc, app_pc, src_pc, app_vars, rem_vars>>
    /\ UpdateFrame

DmrStart ==
    \* _async_startup_dmr: nothing to do when the device exists
    /\ dmr_pc = "start"
    /\ dmr_pc' = IF _dmr_device = None THEN "create_device" ELSE "done"
    /\ UNCHANGED dmr_vars
    /\ DmrFrame

DmrCreateDevice ==
    \* async_create_device returns, or raises one of the errors caught
    /\ dmr_pc = "create_device"
    /\ \E created \in BOOLEAN :
        dmr_pc' = IF created THEN "get_local_ip" ELSE "done"
    /\ UNCHANGED dmr_vars
    /\ DmrFrame

DmrNotifyServer ==
    \* async_get_local_ip returns; the notify server is created
    /\ dmr_pc = "get_local_ip"
    /\ servers' = Append(servers, "created")
    /\ _upnp_server' = Len(servers) + 1
    /\ dmr_server' = Len(servers) + 1
    /\ dmr_pc' = "start_server"
    /\ UNCHANGED _dmr_device
    /\ DmrFrame

DmrServerStarted ==
    \* async_start_server returns; self._upnp_server is read again
    /\ dmr_pc = "start_server"
    /\ servers' = [servers EXCEPT ![dmr_server] = "started"]
    /\ IF _upnp_server = None
       THEN /\ dmr_pc' = "raised"
            /\ UNCHANGED _dmr_device
       ELSE /\ dmr_pc' = "subscribe"
            /\ _dmr_device' = _upnp_server
    /\ dmr_server' = None
    /\ UNCHANGED _upnp_server
    /\ DmrFrame

DmrServerFailed ==
    \* async_start_server raises
    /\ dmr_pc = "start_server"
    /\ dmr_pc' = "raised"
    /\ dmr_server' = None
    /\ UNCHANGED <<_dmr_device, _upnp_server, servers>>
    /\ DmrFrame

DmrSubscribed ==
    \* async_subscribe_services returns, or the device rejects it
    /\ dmr_pc = "subscribe"
    /\ dmr_pc' = "done"
    /\ UNCHANGED dmr_vars
    /\ DmrFrame

DmrSubscribeFailed ==
    \* another UpnpError: the handler reads self._dmr_device and
    \* self._upnp_server again
    /\ dmr_pc = "subscribe"
    /\ IF _dmr_device = None
       THEN /\ dmr_pc' = "raised"
            /\ UNCHANGED dmr_vars
       ELSE /\ _dmr_device' = None
            /\ IF _upnp_server = None
               THEN /\ dmr_pc' = "raised"
                    /\ UNCHANGED dmr_server
               ELSE /\ dmr_pc' = "stop_server"
                    /\ dmr_server' = _upnp_server
            /\ UNCHANGED <<_upnp_server, servers>>
    /\ DmrFrame

Stopped(state) == IF state = "started" THEN "stopped" ELSE state

DmrServerStopped ==
    \* async_stop_server returns; the error is raised again
    /\ dmr_pc = "stop_server"
    /\ servers' = [servers EXCEPT ![dmr_server] = Stopped(@)]
    /\ _upnp_server' = None
    /\ dmr_server' = None
    /\ dmr_pc' = "raised"
    /\ UNCHANGED _dmr_device
    /\ DmrFrame

DmrResubscribed ==
    \* _async_resubscribe_dmr: subscribed, or rejected
    /\ dmr_pc = "resubscribe"
    /\ dmr_pc' = "done"
    /\ UNCHANGED dmr_vars
    /\ DmrFrame

\* _async_shutdown_dmr from its second if
ShutdownServer ==
    IF _upnp_server # None
    THEN /\ upnp_server' = _upnp_server
         /\ _upnp_server' = None
         /\ rpc' = "stop_server"
    ELSE /\ rpc' = "removed"
         /\ UNCHANGED <<upnp_server, _upnp_server>>

RemoveFrame ==
    UNCHANGED <<config, now, cmd_vars, logged, flag_vars, _attr_state,
                app_vars, task_vars, dmr_server, updates, other_specs>>

async_will_remove_from_hass ==
    /\ rpc = "idle"
    /\ IF _dmr_device # None
       THEN /\ _dmr_device' = None
            /\ rpc' = "unsubscribe"
            /\ UNCHANGED <<upnp_server, _upnp_server>>
       ELSE /\ ShutdownServer
            /\ UNCHANGED _dmr_device
    /\ UNCHANGED servers
    /\ RemoveFrame

ShutdownUnsubscribed ==
    \* dmr_device.async_unsubscribe_services() returns
    /\ rpc = "unsubscribe"
    /\ ShutdownServer
    /\ UNCHANGED <<_dmr_device, servers>>
    /\ RemoveFrame

ShutdownStopped ==
    \* upnp_server.async_stop_server() returns
    /\ rpc = "stop_server"
    /\ servers' = [servers EXCEPT ![upnp_server] = Stopped(@)]
    /\ upnp_server' = None
    /\ rpc' = "removed"
    /\ UNCHANGED <<_dmr_device, _upnp_server>>
    /\ RemoveFrame

NextDevice ==
    \/ Tick
    \/ async_turn_off
    \/ async_volume_up
    \/ async_volume_down
    \/ async_mute_volume
    \/ async_media_play
    \/ async_media_pause
    \/ async_media_play_pause
    \/ async_media_next_track
    \/ async_media_previous_track
    \/ \E media_type \in {"app", "channel", "music"}, media_id \in MediaIds \cup {<<"Netflix">>} :
           async_play_media(media_type, media_id)
    \/ \E src \in Apps \cup {"HDMI"} : async_select_source(src)
    \/ access_denied
    \/ Stop
    \/ \E app_list \in AppLists : _app_list_callback(app_list)
    \/ async_update
    \/ IsOnReturns
    \/ UnsubscribeReturns
    \/ GatherReturns
    \/ GatherRaises
    \/ AppListRequest
    \/ AppListRequested
    \/ AppListLoaded
    \/ AppListTimeout
    \/ SourceListStart
    \/ SourceListAgent
    \/ SourceListCall
    \/ DmrStart
    \/ DmrCreateDevice
    \/ DmrNotifyServer
    \/ DmrServerStarted
    \/ DmrServerFailed
    \/ DmrSubscribed
    \/ DmrSubscribeFailed
    \/ DmrServerStopped
    \/ DmrResubscribed
    \/ async_will_remove_from_hass
    \/ ShutdownUnsubscribed
    \/ ShutdownStopped

SpecDevice == InitDevice /\ [][NextDevice]_vars

----------------------------------------------------------------------------
(* Properties.  They read the buffer by its layout, not through the        *)
(* decoder.                                                                *)

U16At(buf, off) == buf[off + 1] + 256 * buf[off + 2]

Finished == pc \in {"done", "raised"}

Size == Len(channel_list)

NumRecords == (Size - HeaderSize) \div RecordSize

Declared == U16At(channel_list, 2)

RecordAt(k) ==
    Slice(channel_list, HeaderSize + RecordSize * k, HeaderSize + RecordSize * (k + 1))

HeaderOk ==
    /\ Size >= MinListSize
    /\ (Size - HeaderSize) % RecordSize = 0
    /\ Declared = NumRecords

IsInt(v, n) == v.type = "int" /\ v.val = n
IsStr(v, t) == v.type = "str" /\ v.val = t

DispnoOf(rec) == PyStr(RStripNul(Utf8Decode(Slice(rec, 12, 16)).text))

ValidRecord(rec) ==
    /\ U16At(rec, 0) \in {2, 3, 4}
    /\ U16At(rec, 10) = 65535
    /\ Utf8Decode(Slice(rec, 12, 16)).ok
    /\ U16At(rec, 22) <= 100
    /\ Utf8Decode(Slice(rec, 24, 24 + U16At(rec, 22))).ok

ValidBuffer ==
    /\ HeaderOk
    /\ \A k \in 0..(NumRecords - 1) : ValidRecord(RecordAt(k))

HasDecoded == Len(decoded) > 0
LastOffset == decoded[Len(decoded)]
LastChunk == Slice(channel_list, LastOffset, LastOffset + RecordSize)
LastFailed == HasDecoded /\ pc = "raised"
LastConstructed == HasDecoded /\ pc # "raised"

\* C1: a buffer of at least 128 bytes whose length minus 4 is a multiple of
\* 124 and whose header count differs from (length - 4) / 124 makes decode
\* fail with the count-mismatch ParseException, which reports the computed
\* and the declared count, and no collection is returned.
C1_CountMismatchIsParseError ==
    ( /\ Finished
      /\ Size >= MinListSize
      /\ (Size - HeaderSize) % RecordSize = 0
      /\ Declared # NumRecords )
    => /\ pc = "raised"
       /\ exc.cls = "ParseException"
       /\ exc.msg = MsgCount(Size, NumRecords, Declared)

\* C2: a record whose declared title length exceeds 100 is rejected: its
\* construction fails and never yields a Channel (whose title would be
\* shorter than the declared length).
C2_LongTitleRejected ==
    (HasDecoded /\ U16At(LastChunk, 22) > 100) => pc = "raised"

\* C3: whatever makes the decoding of a record fail, the error that leaves
\* decode keeps the message of the failure and has, as its last context
\* entry, the offset and the raw bytes of the failing record.
C3_RecordFailureAnnotated ==
    LastFailed
    => /\ exc.msg = Channel(LastChunk).exc.msg
       /\ Len(exc.context) > 0
       /\ exc.context[Len(exc.context)] = FmtChunk(LastOffset, LastChunk)

\* C4: for a header with count N >= 1 followed by exactly N valid records,
\* decode does not fail, and it returns as many entries as there are
\* distinct dispno values among the N records.
C4_ValidBufferCount ==
    ValidBuffer
    => /\ pc # "raised"
       /\ pc = "done" =>
            /\ Len(decoded) = NumRecords
            /\ Cardinality(DOMAIN channels)
               = Cardinality({DispnoOf(RecordAt(k)) : k \in 0..(NumRecords - 1)})

C4_Witness ==
    /\ ValidBuffer
    /\ pc = "done"
    /\ NumRecords = 2
    /\ Cardinality(DOMAIN channels) = 2

LastWithDispno(d) ==
    \* the index of the record with the highest offset whose dispno is d
    CHOOSE k \in 0..(NumRecords - 1) :
        /\ DispnoOf(RecordAt(k)) = d
        /\ \A j \in (k + 1)..(NumRecords - 1) : DispnoOf(RecordAt(j)) # d

SameFields(ch, rec) ==
    /\ IsInt(ch.major_ch, U16At(rec, 2))
    /\ IsInt(ch.minor_ch, U16At(rec, 4))
    /\ IsInt(ch.ptc, U16At(rec, 6))
    /\ IsInt(ch.prog_num, U16At(rec, 8))
    /\ ch.dispno = DispnoOf(rec)
    /\ IsStr(ch.title, Utf8Decode(Slice(rec, 24, 24 + U16At(rec, 22))).text)

\* C5: when valid records share a dispno, decode does not fail, and the
\* returned collection maps the dispno to the Channel of the record with
\* the highest offset among them.
C5_LastWriteWins ==
    ValidBuffer
    => /\ pc # "raised"
       /\ pc = "done" =>
            \A d \in DOMAIN channels :
                SameFields(channels[d], RecordAt(LastWithDispno(d)))

C5_Witness ==
    /\ ValidBuffer
    /\ pc = "done"
    /\ NumRecords = 2
    /\ DispnoOf(RecordAt(0)) = DispnoOf(RecordAt(1))
    /\ U16At(RecordAt(0), 2) # U16At(RecordAt(1), 2)
    /\ IsInt(channels[DispnoOf(RecordAt(1))].major_ch, U16At(RecordAt(1), 2))

C7_ReservedField ==
    (HasDecoded /\ U16At(LastChunk, 10) # 65535)
    => /\ pc = "raised"
       /\ exc.cls = "ParseException"
       /\ U16At(LastChunk, 0) \in {2, 3, 4}
          => exc.msg = MsgReserved(U16At(LastChunk, 10))

C7_Witness ==
    /\ LastFailed
    /\ U16At(LastChunk, 10) = 65280
    /\ ~Utf8Decode(Slice(LastChunk, 12, 16)).ok
    /\ exc.msg = MsgReserved(65280)

\* C8: a buffer of fewer than 128 bytes fails with the size error, whatever
\* it holds, and the later header checks are never reached.
C8_SizeError ==
    Size < 128
    => /\ pc \in {"size_check", "raised"}
       /\ pc = "raised" =>
            /\ exc.cls = "ParseException"
            /\ exc.msg = MsgSize(Size)

C8_Witness ==
    /\ pc = "raised"
    /\ Size = 4
    /\ Declared = 256
    /\ exc.msg = MsgSize(4)

\* C9: a buffer of at least 128 bytes whose length minus 4 is not a
\* multiple of 124 fails with the format error, whatever it holds.
C9_FormatError ==
    (Size >= 128 /\ (Size - 4) % 124 # 0)
    => /\ pc \in {"size_check", "format_check", "raised"}
       /\ pc = "raised" =>
            /\ exc.cls = "ParseException"
            /\ exc.msg = MsgFormat(Size)

C9_Witness ==
    /\ pc = "raised"
    /\ Size = 248
    /\ exc.msg = MsgFormat(248)

HeaderError ==
    \* the message of the first header check the buffer violates
    IF Size < 128 THEN MsgSize(Size)
    ELSE IF (Size - 4) % 124 # 0 THEN MsgFormat(Size)
    ELSE MsgCount(Size, NumRecords, Declared)

\* C10: a buffer that violates a header check fails with that header-level
\* error before any record is decoded: no Channel has been constructed and
\* the error is not a record-level one.
C10_HeaderErrorsFirst ==
    ~HeaderOk
    => /\ decoded = <<>>
       /\ channels = <<>>
       /\ pc # "done"
       /\ pc = "raised" =>
            /\ exc.cls = "ParseException"
            /\ exc.msg = HeaderError

RecordFails(rec) ==
    \* the record cannot be decoded: unknown type code, reserved-field
    \* mismatch, or display-number or title bytes that are not UTF-8
    \/ U16At(rec, 0) \notin {2, 3, 4}
    \/ U16At(rec, 10) # 65535
    \/ ~Utf8Decode(Slice(rec, 12, 16)).ok
    \/ ~Utf8Decode(Slice(rec, 24, 24 + U16At(rec, 22))).ok

\* C11: after the header checks the records are decoded at offsets 4, 128,
\* 252, ... in this order, each once; decode stops at the first record that
\* fails, reports the offset of that record, and returns no collection.
C11_InOrderStopAtFirstFailure ==
    HeaderOk
    => /\ \A i \in 1..Len(decoded) :
            /\ decoded[i] = 4 + 124 * (i - 1)
            /\ i < Len(decoded) => ~RecordFails(RecordAt(i - 1))
       /\ pc = "done" =>
            /\ Len(decoded) = NumRecords
            /\ ~RecordFails(LastChunk)
       /\ (pc = "loop" /\ HasDecoded) => ~RecordFails(LastChunk)
       /\ pc = "raised" =>
            /\ HasDecoded
            /\ RecordFails(LastChunk)
            /\ Len(exc.context) > 0
            /\ exc.context[Len(exc.context)] = FmtChunk(LastOffset, LastChunk)

----------------------------------------------------------------------------
(* Properties of one Channel, checked under SpecChannel.                   *)

SameValue(a, b) ==
    \* the same kind of value and the same value
    a.type = b.type /\ a.val = b.val

FromRecord == source.kind = "bytes" /\ cpc = "built"

FromElement == source.kind = "node" /\ cpc = "built"

\* C12: a Channel built from a valid record, rendered with as_xml and built
\* again from the parsed document has ch_type, major_ch, minor_ch, ptc and
\* prog_num equal to the first Channel's, in value and in kind of value.
C12_RoundTrip ==
    (FromRecord /\ copy.done)
    => /\ copy.ok
       /\ SameValue(copy.ch.ch_type, self.ch_type)
       /\ SameValue(copy.ch.major_ch, self.major_ch)
       /\ SameValue(copy.ch.minor_ch, self.minor_ch)
       /\ SameValue(copy.ch.ptc, self.ptc)
       /\ SameValue(copy.ch.prog_num, self.prog_num)

HasSpecial(v) ==
    \* a string with one of the characters & < >
    v.type = "str" /\ \E i \in 1..Len(v.val) : v.val[i] \in {38, 60, 62}

Structure(doc) ==
    \* the tags of the children of the root element, in order
    [i \in 1..Len(documentElement(doc).childNodes) |->
        documentElement(doc).childNodes[i].tag]

\* C13: as_xml on a Channel whose ch_type contains <, > or & returns a
\* document that has these characters only inside entity references: between
\* the ChType tags there is no raw < or >, the document parses to the fixed
\* structure Channel/ChType/MajorCh/MinorCh/PTC/ProgNum, and the text of
\* ChType is ch_type again.
C13_SpecialCharsEscaped ==
    \A i \in 1..Len(calls) :
        (calls[i].op = "as_xml" /\ HasSpecial(self.ch_type))
        => /\ calls[i].ret.ok
           /\ parseString(calls[i].ret.val).ok
           /\ documentElement(parseString(calls[i].ret.val).doc).tag = TagChannel
           /\ Structure(parseString(calls[i].ret.val).doc) = FieldTags
           /\ FirstValue(parseString(calls[i].ret.val).doc, TagChType).val
                = self.ch_type

Root ==
    \* the element handed to the constructor, or the root of the document
    IF source.node.kind = "document" THEN source.node.childNodes[1]
    ELSE source.node

ChildrenNamed(tag) ==
    \* the positions of the children of Root that are elements named tag
    {i \in 1..Len(Root.childNodes) :
        Root.childNodes[i].kind = "element" /\ Root.childNodes[i].tag = tag}

Child(tag) == Root.childNodes[Nth(ChildrenNamed(tag), 1)]

TextOf(node) ==
    \* the character data directly inside an element
    ConcatRange([i \in 1..Len(node.childNodes) |->
                    IF node.childNodes[i].kind = "text"
                    THEN node.childNodes[i].data ELSE <<>>],
                1, Len(node.childNodes))

HasNonEmpty(tag) ==
    ChildrenNamed(tag) # {} /\ Child(tag).childNodes # <<>>

\* C14: constructing a Channel from an element that has non-empty ChType,
\* MajorCh, MinorCh, PTC and ProgNum children succeeds; the five fields are
\* the texts of those children, dispno equals major_ch and title is the
\* empty string.
C14_XmlConstruction ==
    (source.kind = "node" /\ cpc # "new"
        /\ \A i \in 1..5 : HasNonEmpty(FieldTags[i]))
    => /\ cpc = "built"
       /\ IsStr(self.ch_type, TextOf(Child(TagChType)))
       /\ IsStr(self.major_ch, TextOf(Child(TagMajorCh)))
       /\ IsStr(self.minor_ch, TextOf(Child(TagMinorCh)))
       /\ IsStr(self.ptc, TextOf(Child(TagPTC)))
       /\ IsStr(self.prog_num, TextOf(Child(TagProgNum)))
       /\ SameValue(self.dispno, self.major_ch)
       /\ IsStr(self.title, <<>>)

HasTextChild(node) ==
    \E i \in 1..Len(node.childNodes) : node.childNodes[i].kind = "text"

Faulty(tag) ==
    \* the child is missing or has no text child
    ChildrenNamed(tag) = {} \/ ~HasTextChild(Child(tag))

\* C15: constructing a Channel from an element in which ChType, MajorCh,
\* MinorCh, PTC or ProgNum is missing or has no text child fails with
\* ParseException("Wrong XML document") and an empty context, whichever
\* element is at fault; and the constructor raises nothing else on an
\* element.
C15_GenericXmlError ==
    (source.kind = "node" /\ cpc # "new")
    => /\ (\E i \in 1..5 : Faulty(FieldTags[i])) => cpc = "raised"
       /\ cpc = "raised" => cexc = ParseException(MsgWrongXml)

\* C16: as_params(chtype, sid) on any Channel returns a mapping with exactly
\* the keys ChannelListType, Channel and SatelliteID, whose values are
\* chtype, the document as_xml returns for the Channel, and sid.
C16_RequestParams ==
    \A i \in 1..Len(calls) :
        calls[i].op = "as_params"
        => /\ calls[i].ret.ok
           /\ DOMAIN calls[i].ret.val
                = {"ChannelListType", "Channel", "SatelliteID"}
           /\ calls[i].ret.val.ChannelListType = calls[i].chtype
           /\ as_xml(self).ok
           /\ calls[i].ret.val.Channel = as_xml(self).val
           /\ calls[i].ret.val.SatelliteID = calls[i].sid

----------------------------------------------------------------------------
(* Properties of the decoder, continued (checked under Spec).              *)

\* C17: a ParseException that leaves decode carries one whole context string
\* per annotating layer, in the order they were added, and its message is
\* the one it was raised with: the size error and the format error carry
\* the text 'Channel list: <repr of the buffer>' as their single context
\* string, and the error of a record carries the chunk annotation as its
\* single context string under the message the Channel constructor gave.
C17_ContextChain ==
    (pc = "raised" /\ exc.cls = "ParseException")
    => /\ exc.msg \in {MsgSize(Size), MsgFormat(Size)}
            => exc.context = <<FmtChannelList(channel_list)>>
       /\ HasDecoded
            => /\ exc.context = <<FmtChunk(LastOffset, LastChunk)>>
               /\ exc.msg = Channel(LastChunk).exc.msg

StripsTo(rec, k) ==
    \* k is the text of bytes 12..15 of the record without its trailing NULs
    LET d == Utf8Decode(Slice(rec, 12, 16)).text
    IN  /\ Len(k) <= Len(d)
        /\ SubSeq(d, 1, Len(k)) = k
        /\ \A i \in (Len(k) + 1)..Len(d) : d[i] = 0
        /\ (k = <<>> \/ k[Len(k)] # 0)

\* C18: in the collection decode returns, every key k is a string that maps
\* to a Channel whose dispno is k; k is the text of bytes 12..15 of one of
\* the records with the trailing NULs removed, so it has at most 4
\* characters and does not end in NUL.
C18_KeysAreDispno ==
    pc = "done"
    => \A k \in DOMAIN channels :
          /\ k.type = "str"
          /\ SameValue(channels[k].dispno, k)
          /\ Len(k.val) <= 4
          /\ (k.val = <<>> \/ k.val[Len(k.val)] # 0)
          /\ \E i \in 0..(NumRecords - 1) : StripsTo(RecordAt(i), k.val)

C18_Witness ==
    /\ pc = "done"
    /\ NumRecords = 2
    /\ Slice(RecordAt(0), 12, 16) = <<55, 0, 0, 0>>
    /\ Slice(RecordAt(1), 12, 16) = <<49, 50, 0, 0>>
    /\ DOMAIN channels = {PyStr(<<55>>), PyStr(<<49, 50>>)}

\* C19: major_ch, minor_ch, ptc and prog_num of a Channel constructed from a
\* record are the integers low byte + 256 * high byte of the bytes at
\* offsets 2, 4, 6 and 8 of the record, each in 0..65535.
C19_NumericFields ==
    LastConstructed
    => LET ch == channels[DispnoOf(LastChunk)]
       IN  /\ IsInt(ch.major_ch, LastChunk[3] + 256 * LastChunk[4])
           /\ IsInt(ch.minor_ch, LastChunk[5] + 256 * LastChunk[6])
           /\ IsInt(ch.ptc, LastChunk[7] + 256 * LastChunk[8])
           /\ IsInt(ch.prog_num, LastChunk[9] + 256 * LastChunk[10])
           /\ {ch.major_ch.val, ch.minor_ch.val, ch.ptc.val, ch.prog_num.val}
                \subseteq 0..65535

C19_Witness ==
    /\ LastConstructed
    /\ IsInt(channels[DispnoOf(LastChunk)].major_ch, 300)
    /\ IsInt(channels[DispnoOf(LastChunk)].minor_ch, 65535)
    /\ IsInt(channels[DispnoOf(LastChunk)].ptc, 33)
    /\ IsInt(channels[DispnoOf(LastChunk)].prog_num, 1)
    /\ Slice(LastChunk, 2, 10) = <<44, 1, 255, 255, 33, 0, 1, 0>>

----------------------------------------------------------------------------
(* Properties of one Channel, continued (checked under SpecChannel).       *)

Constructed ==
    \* the fields the constructor gave the Channel
    IF source.kind = "node" THEN ChannelFromNode(source.node).ch
    ELSE Channel(source.buf).ch

DecimalText(v) ==
    \* the unpadded decimal text of a numeric field, whichever kind holds it
    IF v.type = "int" THEN DecStr(v.val) ELSE v.val

\* C21: as_xml on a Channel built by either construction path returns, and
\* never raises: the result is the fixed document with the escaped ch_type
\* and with MajorCh, MinorCh, PTC and ProgNum as unpadded decimal text.
C21_AsXmlNeverRaises ==
    \A i \in 1..Len(calls) :
        calls[i].op = "as_xml"
        => /\ calls[i].ret.ok
           /\ calls[i].ret.val
                = XmlPart1 \o escape(self.ch_type).val
                    \o XmlPart2 \o DecimalText(self.major_ch)
                    \o XmlPart3 \o DecimalText(self.minor_ch)
                    \o XmlPart4 \o DecimalText(self.ptc)
                    \o XmlPart5 \o DecimalText(self.prog_num)
                    \o XmlPart6

----------------------------------------------------------------------------
(* Properties of ContextException objects (checked under SpecContext).     *)

ContextOf(i) == heap[instances[i].context]

\* C22: no two exception objects share a context list, and none shares it
\* with the default argument or with the list the caller passed; a step that
\* changes the context of one object changes no other object's context and
\* no message; and an object created with the default context starts with
\* an empty context.
C22_NoSharedContext ==
    [][/\ \A i, j \in 1..Len(instances') :
             /\ instances'[i].context \notin {DefaultContext, CallerList}
             /\ i # j => instances'[i].context # instances'[j].context
       /\ \A i, j \in 1..Len(instances) :
             (i # j /\ heap'[instances[i].context] # ContextOf(i))
             => heap'[instances[j].context] = ContextOf(j)
       /\ \A i \in 1..Len(instances) : instances'[i] = instances[i]
       /\ \A i \in (Len(instances) + 1)..Len(instances') :
             /\ instances'[i].arg = DefaultContext
                    => heap'[instances'[i].context] = <<>>
             /\ instances'[i].arg = CallerList
                    => heap'[instances'[i].context] = heap[CallerList]
      ]_vars

C22_Witness ==
    /\ Len(instances) = 3
    /\ instances[1].arg = DefaultContext
    /\ instances[2].arg = CallerList
    /\ instances[3].arg = DefaultContext
    /\ ContextOf(1) = <<ContextB, ContextA>>
    /\ ContextOf(2) = <<ContextA, ContextB>>
    /\ ContextOf(3) = <<>>
    /\ heap[DefaultContext] = <<>>
    /\ heap[CallerList] = <<ContextA>>

\* the deadline of a power-off lies ahead, read off the fields themselves
Deadline == _end_of_power_off # NoTime /\ now < _end_of_power_off.val

\* C23: while a power-off is in progress no key sequence that does not start
\* with KEY_POWEROFF and no launch_app command is handed to the bridge,
\* whichever entity operation asked for it.
C23_PowerOffSuppresses ==
    [][(last_call' # last_call /\ last_call'.call \in {"send_keys", "launch_app"})
         => \/ ~Deadline
            \/ /\ last_call'.call = "send_keys"
               /\ last_call'.keys[1] = "KEY_POWEROFF"]_vars

\* both kinds of command have been held back while the power-off went on
C23_Witness ==
    /\ Deadline
    /\ last_call.call = "power_off"
    /\ logged = {"not sending keys", "not sending launch_app command"}
    /\ _app_list = Apps

\* no _async_shutdown_dmr, and no startup or resubscription, is under way
DmrAtRest == dmr_pc \in Rest /\ rpc \in {"idle", "removed"}

\* C24: when a call of _async_startup_dmr has finished, normally or by
\* raising, and no startup or shutdown is under way, _dmr_device is set if
\* and only if _upnp_server is set; after a failed subscription that was not
\* a rejection both are cleared and the notify server is stopped.
C24_NeverHalfConstructed ==
    /\ [](dmr_pc \in {"done", "raised"} /\ DmrAtRest
            => (_dmr_device # None <=> _upnp_server # None))
    /\ [][dmr_pc = "stop_server" /\ dmr_pc' = "raised"
            => /\ _dmr_device' = None
               /\ _upnp_server' = None
               /\ servers'[dmr_server] = "stopped"]_vars

\* every async_update with its tasks, and the removal, have completed
AllCompleted == upc = "idle" /\ TasksAtRest /\ rpc = "removed"

\* C25: in every interleaving of async_update calls with
\* async_will_remove_from_hass, once all of them have completed the entity
\* holds no DMR device and no notify server that is started and not stopped,
\* and no started notify server is left without a reference to it.
C25_RemovalShutsDown ==
    AllCompleted =>
        /\ _dmr_device = None
        /\ _upnp_server # None => servers[_upnp_server] # "started"
        /\ \A i \in 1..Len(servers) : servers[i] = "started" => _upnp_server = i

\* C26: every call of _async_startup_app_list that returns leaves
\* _app_list_event set, the event is never cleared, and from then on no
\* async_update starts the task or requests the app list from the bridge.
C26_AppListRequestedOnce ==
    /\ [](app_pc = "done" => _app_list_event)
    /\ [][/\ _app_list_event => _app_list_event'
          /\ _app_list_event /\ app_pc \in Rest
                => /\ app_pc' \in Rest
                   /\ app_list_requests' = app_list_requests]_vars

\* a second async_update has found the TV on and returned, and the app list
\* has been requested once
C26_Witness ==
    /\ updates = 2
    /\ upc = "idle"
    /\ TasksAtRest
    /\ _attr_state = "on"
    /\ _end_of_power_off = NoTime
    /\ ~_auth_failed
    /\ ~is_stopping
    /\ _app_list_event
    /\ app_list_requests = 1

\* C27: once access_denied has fired _auth_failed is never reset; every
\* async_update called from then on returns at once, without a call of the
\* bridge, without a startup task and without a change of the entity state,
\* and available is false.
C27_AuthFailedIsFinal ==
    /\ [](_auth_failed => ~available)
    /\ [][_auth_failed
            => /\ _auth_failed'
               /\ updates' # updates
                    => UNCHANGED <<_attr_state, task_vars, app_vars, dmr_vars,
                                  cmd_vars>>]_vars

\* the only async_update so far was called after access_denied, on an entity
\* that would be available otherwise
C27_Witness ==
    /\ _auth_failed
    /\ ~is_stopping
    /\ updates = 1
    /\ upc = "idle"
    /\ _attr_state = "None"
    /\ config.mac
    /\ ~available

============================================================================
